---- MODULE Spec2Model ----
(***************************************************************************)
(* Model of ouch's archive listing pipeline (src/commands/list.rs) and of  *)
(* the error conversions of src/error.rs.  One behaviour is one call of    *)
(* list_archive_contents; every action is one statement of that function.  *)
(***************************************************************************)
EXTENDS Integers, Sequences, FiniteSets, TLC

\* Longest format chain handed to list_archive_contents.
MaxLen == 3
\* Most entries an archive yields to list_files.
MaxEntries == 2

----------------------------------------------------------------------------
\* CompressionFormat and its partition (list.rs matches on every variant).

StreamKinds == {"Gzip", "Bzip", "Bzip3", "Lz4", "Lzma", "Snappy", "Zstd"}
SeekingKinds == {"Zip", "Rar", "SevenZip"}
ContainerKinds == {"Tar"} \cup SeekingKinds
CompressionFormat == ContainerKinds \cup StreamKinds

QuestionPolicy == {"AlwaysYes", "AlwaysNo", "Ask"}

\* std::io::ErrorKind values: the three error.rs singles out, and others.
IoKinds == {"NotFound", "PermissionDenied", "AlreadyExists",
            "InvalidData", "UnexpectedEof", "Other"}

\* zip::result::ZipError values.
ZipErrors == {[tag |-> "Io", io |-> k] : k \in IoKinds}
             \cup {[tag |-> t, io |-> "none"] :
                     t \in {"InvalidArchive", "FileNotFound", "UnsupportedArchive"}}

----------------------------------------------------------------------------
\* Results of the call.

Running == [kind |-> "Running", variant |-> "none", msg |-> "none"]
OkUnit == [kind |-> "Ok", variant |-> "none", msg |-> "none"]
Err(v, m) == [kind |-> "Err", variant |-> v, msg |-> m]
Panic(m) == [kind |-> "Panic", variant |-> "none", msg |-> m]

\* The library error behind a failure: the step that failed, the library
\* that raised it, and the library's own classification.
NoCause == [step |-> "none", lib |-> "none", tag |-> "none", io |-> "none"]
Cause(s, l, t, k) == [step |-> s, lib |-> l, tag |-> t, io |-> k]

\* impl From<std::io::Error> for Error
FromIoAllGeneric(k) == Err("IoError", k)
FromIo(k) ==
    CASE k = "NotFound" -> Err("NotFound", k)
      [] k = "PermissionDenied" -> Err("PermissionDenied", k)
      [] k = "AlreadyExists" -> Err("AlreadyExists", k)
      [] OTHER -> Err("IoError", k)

\* impl From<zip::result::ZipError> for Error
FromZip(z) ==
    CASE z.tag = "Io" -> FromIo(z.io)
      [] z.tag = "InvalidArchive" -> Err("InvalidZipArchive", "filename")
      [] z.tag = "FileNotFound" -> Err("Custom", "Unexpected error in zip archive")
      [] z.tag = "UnsupportedArchive" -> Err("UnsupportedZipArchive", "filename")

----------------------------------------------------------------------------
\* Pure helpers of the listing function.

RECURSIVE Reverse(_)
Reverse(s) == IF s = <<>> THEN <<>> ELSE Append(Reverse(Tail(s)), Head(s))

\* formats.iter().skip(1).rev()
LayersUnreversed(f) == IF f = <<>> THEN <<>> ELSE Tail(f)
LayersToWrap(f) == IF f = <<>> THEN <<>> ELSE Reverse(Tail(f))

\* formats.len() > 1, the condition of the warn-and-ask block.
HasLayersAlways(f) == Len(f) >= 1
HasLayers(f) == Len(f) > 1

WellFormed(f) ==
    /\ Len(f) >= 1
    /\ f[1] \in ContainerKinds
    /\ \A j \in 2..Len(f) : f[j] \in StreamKinds

StreamOnly(f) ==
    /\ Len(f) >= 1
    /\ \A j \in 1..Len(f) : f[j] \in StreamKinds

\* Any Vec<CompressionFormat>, the empty one included.
Chains == UNION {[1..n -> CompressionFormat] : n \in 0..MaxLen}

----------------------------------------------------------------------------
VARIABLES
    formats,          \* argument: the format chain
    question_policy,  \* argument: the QuestionPolicy
    unrar,            \* build feature "unrar"
    pc,               \* position in list_archive_contents
    reader,           \* the reader stack, innermost first
    i,                \* iteration of the decoder-chaining loop
    locks,            \* _locks is alive (output lock held)
    warned,           \* calls of warn_user_about_loading_zip_in_memory
    asked,            \* calls of user_wants_to_continue
    answer,           \* what user_wants_to_continue returned
    buffer,           \* vec / temp_file contents written by io::copy
    temp_file,        \* the NamedTempFile on disk
    files,            \* what the entry iterator was opened on
    listed,           \* entries pulled by list_files
    cause,            \* library error behind the failure, if any
    result            \* value the call ends with

vars == <<formats, question_policy, unrar, pc, reader, i, locks, warned, asked,
          answer, buffer, temp_file, files, listed, cause, result>>

NoBuffer == [kind |-> "none", state |-> "empty"]

Init ==
    /\ formats \in Chains
    /\ question_policy \in QuestionPolicy
    /\ unrar \in BOOLEAN
    /\ pc = "open"
    /\ reader = <<>>
    /\ i = 0
    /\ locks = FALSE
    /\ warned = 0
    /\ asked = 0
    /\ answer = "none"
    /\ buffer = NoBuffer
    /\ temp_file = "none"
    /\ files = "none"
    /\ listed = 0
    /\ cause = NoCause
    /\ result = Running

args == <<formats, question_policy, unrar>>

\* Leaving the function: every local is dropped, so the output lock is
\* released and a live NamedTempFile is deleted.
Return(res, c) ==
    /\ pc' = "done"
    /\ result' = res
    /\ cause' = c
    /\ locks' = FALSE
    /\ temp_file' = IF temp_file = "exists" THEN "deleted" ELSE temp_file

----------------------------------------------------------------------------
\* line 26: fs::File::open(archive_path)?
OpenFile ==
    /\ pc = "open"
    /\ \/ /\ reader' = <<"File">>
          /\ pc' = "check_zip"
          /\ UNCHANGED <<result, cause, locks, temp_file>>
       \/ /\ \E k \in IoKinds : Return(FromIo(k), Cause("open", "io", "Io", k))
          /\ UNCHANGED reader
    /\ UNCHANGED <<args, i, warned, asked, answer, buffer, files, listed>>

\* line 35: if let &[Zip] = formats.as_slice()
CheckSingleZip ==
    /\ pc = "check_zip"
    /\ pc' = IF formats = <<"Zip">> THEN "fast_zip" ELSE "bufreader"
    /\ UNCHANGED <<args, reader, i, locks, warned, asked, answer, buffer,
                   temp_file, files, listed, cause, result>>

\* lines 36-37: zip::ZipArchive::new(reader)? on the raw file
FastZipOpen ==
    /\ pc = "fast_zip"
    /\ \/ /\ files' = "file"
          /\ pc' = "fast_list"
          /\ UNCHANGED <<result, cause, locks, temp_file>>
       \/ /\ \E z \in ZipErrors : Return(FromZip(z), Cause("container", "zip", z.tag, z.io))
          /\ UNCHANGED files
    /\ UNCHANGED <<args, reader, i, warned, asked, answer, buffer, listed>>

\* list::list_files pulling from the lazy entry iterator (lines 38 and 120)
ListFiles(at) ==
    /\ pc = at
    /\ \/ /\ listed < MaxEntries
          /\ listed' = listed + 1
          /\ UNCHANGED <<pc, result, cause, locks, temp_file>>
       \/ /\ Return(OkUnit, NoCause)
          /\ UNCHANGED listed
       \/ /\ Return(Err("Custom", "entry"), Cause("list", "ouch", "none", "none"))
          /\ UNCHANGED listed
    /\ UNCHANGED <<args, reader, i, warned, asked, answer, buffer, files>>

\* lines 38-40
FastZipList == ListFiles("fast_list")

\* lines 44-45: BufReader::with_capacity(BUFFER_CAPACITY, reader)
WrapBufReader ==
    /\ pc = "bufreader"
    /\ reader' = Append(reader, "BufReader")
    /\ i' = 1
    /\ pc' = "chain"
    /\ UNCHANGED <<args, locks, warned, asked, answer, buffer, temp_file,
                   files, listed, cause, result>>

\* lines 48-61: chain_reader_decoder(format, decoder).  Only the Bzip3 and
\* the Zstd constructors return a Result: Bzip3's is unwrapped, Zstd's is
\* propagated with `?`; a container tag hits unreachable!().
DecoderOutcomes(format) ==
    CASE format \in {"Gzip", "Bzip", "Lz4", "Lzma", "Snappy"} -> {"ok"}
      [] format = "Bzip3" -> {"ok", "panic"}
      [] format = "Zstd" -> {"ok", "err"}
      [] OTHER -> {"unreachable"}

\* lines 63-65: for format in formats.iter().skip(1).rev()
ChainDecoders ==
    /\ pc = "chain"
    /\ i <= Len(LayersToWrap(formats))
    /\ LET format == LayersToWrap(formats)[i] IN
       \E o \in DecoderOutcomes(format) :
          \/ /\ o = "ok"
             /\ reader' = Append(reader, format)
             /\ i' = i + 1
             /\ UNCHANGED <<pc, result, cause, locks, temp_file>>
          \/ /\ o = "err"
             /\ \E k \in IoKinds : Return(FromIo(k), Cause("decoder", "io", "Io", k))
             /\ UNCHANGED <<reader, i>>
          \/ /\ o = "panic"
             /\ Return(Panic("unwrap"), Cause("decoder", "bzip3", "none", "none"))
             /\ UNCHANGED <<reader, i>>
          \/ /\ o = "unreachable"
             /\ Return(Panic("unreachable"), Cause("decoder", "none", "none", "none"))
             /\ UNCHANGED <<reader, i>>
    /\ UNCHANGED <<args, warned, asked, answer, buffer, files, listed>>

\* loop exhausted: fall through to the match of line 67
ChainDone ==
    /\ pc = "chain"
    /\ i > Len(LayersToWrap(formats))
    /\ pc' = "match"
    /\ UNCHANGED <<args, reader, i, locks, warned, asked, answer, buffer,
                   temp_file, files, listed, cause, result>>

\* line 67: match formats[0], for a chain that has a position 0
MatchArm(f) ==
    CASE f[1] = "Tar" -> "tar"
      [] f[1] = "Zip" -> IF HasLayers(f) THEN "zip_lock" ELSE "zip_copy"
      [] f[1] = "Rar" -> IF ~unrar THEN "rar_stub"
                         ELSE IF HasLayers(f) THEN "rar_temp" ELSE "rar_direct"
      [] f[1] = "SevenZip" -> IF HasLayers(f) THEN "sevenz_lock" ELSE "sevenz_open"
      [] OTHER -> "not_archive"

\* line 67: formats[0] panics on an empty chain (index out of bounds)
MatchContainer ==
    /\ pc = "match"
    /\ \/ /\ formats # <<>>
          /\ pc' = MatchArm(formats)
          /\ UNCHANGED <<locks, temp_file, cause, result>>
       \/ /\ formats = <<>>
          /\ Return(Panic("index out of bounds"), NoCause)
    /\ UNCHANGED <<args, reader, i, warned, asked, answer, buffer, files, listed>>

\* line 68: tar::Archive::new(reader) reads from the composed stream
TarOpen ==
    /\ pc = "tar"
    /\ files' = "stream"
    /\ pc' = "list"
    /\ UNCHANGED <<args, reader, i, locks, warned, asked, answer, buffer,
                   temp_file, listed, cause, result>>

\* lines 115-117: a stream kind at position 0
NotAnArchiveAsError ==
    /\ pc = "not_archive"
    /\ Return(Err("Custom", "Not an archive"), NoCause)
    /\ UNCHANGED <<args, reader, i, warned, asked, answer, buffer, files, listed>>

NotAnArchive ==
    /\ pc = "not_archive"
    /\ Return(Panic("Not an archive!"), NoCause)
    /\ UNCHANGED <<args, reader, i, warned, asked, answer, buffer, files, listed>>

\* utils::user_wants_to_continue(path, question_policy, Decompression):
\* Ok(true), Ok(false), or an Err when the interactive question fails.
UserWantsToContinue(policy) ==
    CASE policy = "AlwaysYes" -> {"yes"}
      [] policy = "AlwaysNo" -> {"no"}
      [] policy = "Ask" -> {"yes", "no", "err"}

\* lines 73 and 105: let _locks = lock_and_flush_output_stdio();
GateLock(at, to) ==
    /\ pc = at
    /\ locks' = TRUE
    /\ pc' = to
    /\ UNCHANGED <<args, reader, i, warned, asked, answer, buffer, temp_file,
                   files, listed, cause, result>>

\* lines 75 and 107: warn_user_about_loading_zip_in_memory();
GateWarn(at, to) ==
    /\ pc = at
    /\ warned' = warned + 1
    /\ pc' = to
    /\ UNCHANGED <<args, reader, i, locks, asked, answer, buffer, temp_file,
                   files, listed, cause, result>>

\* lines 76 and 108: the call of user_wants_to_continue
GateAsk(at, to) ==
    /\ pc = at
    /\ asked' = asked + 1
    /\ answer' \in UserWantsToContinue(question_policy)
    /\ pc' = to
    /\ UNCHANGED <<args, reader, i, locks, warned, buffer, temp_file,
                   files, listed, cause, result>>

\* lines 76-79 and 108-111: what the answer leads to.  `?` returns the
\* error, a refusal returns Ok(()), and otherwise the block ends; _locks
\* is dropped on each of the three ways out of the block.
GateLeaveKeepLock(at, to) ==
    /\ pc = at
    /\ \/ /\ answer = "yes"
          /\ pc' = to
          /\ UNCHANGED <<locks, result, cause, temp_file>>
       \/ /\ answer = "no"
          /\ Return(OkUnit, NoCause)
       \/ /\ answer = "err"
          /\ Return(Err("Custom", "question"), Cause("ask", "ouch", "none", "none"))
    /\ UNCHANGED <<args, reader, i, warned, asked, answer, buffer, files, listed>>

GateLeave(at, to) ==
    /\ pc = at
    /\ \/ /\ answer = "yes"
          /\ locks' = FALSE
          /\ pc' = to
          /\ UNCHANGED <<result, cause, temp_file>>
       \/ /\ answer = "no"
          /\ Return(OkUnit, NoCause)
       \/ /\ answer = "err"
          /\ Return(Err("Custom", "question"), Cause("ask", "ouch", "none", "none"))
    /\ UNCHANGED <<args, reader, i, warned, asked, answer, buffer, files, listed>>

\* Zip arm, lines 69-86
ZipLock == GateLock("zip_lock", "zip_warn")
ZipWarn == GateWarn("zip_warn", "zip_ask")
ZipAsk == GateAsk("zip_ask", "zip_leave")
ZipLeave == GateLeave("zip_leave", "zip_copy")

\* lines 81-82: io::copy(&mut reader, &mut vec)?
ZipCopy ==
    /\ pc = "zip_copy"
    /\ \/ /\ buffer' = [kind |-> "memory", state |-> "full"]
          /\ pc' = "zip_new"
          /\ UNCHANGED <<result, cause, locks, temp_file>>
       \/ /\ buffer' = [kind |-> "memory", state |-> "partial"]
          /\ \E k \in IoKinds : Return(FromIo(k), Cause("copy", "io", "Io", k))
    /\ UNCHANGED <<args, reader, i, warned, asked, answer, files, listed>>

\* lines 83-85: zip::ZipArchive::new(io::Cursor::new(vec))?
ZipOpen ==
    /\ pc = "zip_new"
    /\ \/ /\ files' = "memory"
          /\ pc' = "list"
          /\ UNCHANGED <<result, cause, locks, temp_file>>
       \/ /\ \E z \in ZipErrors : Return(FromZip(z), Cause("container", "zip", z.tag, z.io))
          /\ UNCHANGED files
    /\ UNCHANGED <<args, reader, i, warned, asked, answer, buffer, listed>>

\* Rar arm with the unrar feature, lines 87-96
\* line 90: tempfile::NamedTempFile::new()?
RarTempFile ==
    /\ pc = "rar_temp"
    /\ \/ /\ temp_file' = "exists"
          /\ pc' = "rar_copy"
          /\ UNCHANGED <<result, cause, locks>>
       \/ \E k \in IoKinds : Return(FromIo(k), Cause("tempfile", "io", "Io", k))
    /\ UNCHANGED <<args, reader, i, warned, asked, answer, buffer, files, listed>>

\* line 91: io::copy(&mut reader, &mut temp_file)?
RarCopy ==
    /\ pc = "rar_copy"
    /\ \/ /\ buffer' = [kind |-> "tempfile", state |-> "full"]
          /\ pc' = "rar_open"
          /\ UNCHANGED <<result, cause, locks, temp_file>>
       \/ /\ buffer' = [kind |-> "tempfile", state |-> "partial"]
          /\ \E k \in IoKinds : Return(FromIo(k), Cause("copy", "io", "Io", k))
    /\ UNCHANGED <<args, reader, i, warned, asked, answer, files, listed>>

\* line 92: rar::list_archive(temp_file.path(), password)?
RarOpenTemp ==
    /\ pc = "rar_open"
    /\ \/ /\ files' = "tempfile"
          /\ pc' = "rar_end"
          /\ UNCHANGED <<result, cause, locks, temp_file>>
       \/ /\ Return(Err("Custom", "rar"), Cause("container", "unrar", "none", "none"))
          /\ UNCHANGED files
    /\ UNCHANGED <<args, reader, i, warned, asked, answer, buffer, listed>>

\* line 93: the block ends and temp_file is dropped, which deletes the file
RarEndBlock ==
    /\ pc = "rar_end"
    /\ temp_file' = "deleted"
    /\ pc' = "list"
    /\ UNCHANGED <<args, reader, i, locks, warned, asked, answer, buffer,
                   files, listed, cause, result>>

\* line 94: rar::list_archive(archive_path, password)?
RarOpenDirect ==
    /\ pc = "rar_direct"
    /\ \/ /\ files' = "archive_path"
          /\ pc' = "list"
          /\ UNCHANGED <<result, cause, locks, temp_file>>
       \/ /\ Return(Err("Custom", "rar"), Cause("container", "unrar", "none", "none"))
          /\ UNCHANGED files
    /\ UNCHANGED <<args, reader, i, warned, asked, answer, buffer, listed>>

\* lines 97-100: Rar arm without the unrar feature
RarStub ==
    /\ pc = "rar_stub"
    /\ Return(Err("UnsupportedFormat", "rar"), NoCause)
    /\ UNCHANGED <<args, reader, i, warned, asked, answer, buffer, files, listed>>

\* SevenZip arm, lines 101-114
SevenZipLock == GateLock("sevenz_lock", "sevenz_warn")
SevenZipWarn == GateWarn("sevenz_warn", "sevenz_ask")
SevenZipAsk == GateAsk("sevenz_ask", "sevenz_leave")
SevenZipLeave == GateLeave("sevenz_leave", "sevenz_open")

\* line 113: sevenz::list_archive(archive_path, password)?
SevenZipOpen ==
    /\ pc = "sevenz_open"
    /\ \/ /\ files' = "archive_path"
          /\ pc' = "list"
          /\ UNCHANGED <<result, cause, locks, temp_file>>
       \/ /\ Return(Err("SevenzipError", "sevenz"), Cause("container", "sevenz", "none", "none"))
          /\ UNCHANGED files
    /\ UNCHANGED <<args, reader, i, warned, asked, answer, buffer, listed>>

\* line 120
\* line 120
ListArchive == ListFiles("list")

Next ==
    \/ OpenFile
    \/ CheckSingleZip
    \/ FastZipOpen
    \/ FastZipList
    \/ WrapBufReader
    \/ ChainDecoders
    \/ ChainDone
    \/ MatchContainer
    \/ TarOpen
    \/ ZipLock
    \/ ZipWarn
    \/ ZipAsk
    \/ ZipLeave
    \/ ZipCopy
    \/ ZipOpen
    \/ RarTempFile
    \/ RarCopy
    \/ RarOpenTemp
    \/ RarEndBlock
    \/ RarOpenDirect
    \/ RarStub
    \/ SevenZipLock
    \/ SevenZipWarn
    \/ SevenZipAsk
    \/ SevenZipLeave
    \/ SevenZipOpen
    \/ NotAnArchive
    \/ ListArchive

Spec == Init /\ [][Next]_vars
----------------------------------------------------------------------------
\* Properties of list_archive_contents and of the error conversions.

\* C1: a chain with a seeking container (Zip, SevenZip, Rar) at position 0
\* and at least one stream layer, once the file is open and every decoder
\* is constructed, makes the call consult the QuestionPolicy exactly once
\* and take the buffering path (an accepted question is followed by the
\* copy of the decoder output).  Stated for a build that supports Rar and
\* for the calls in which no step fails.
C1_AskedOnceAndBuffered ==
    ( /\ WellFormed(formats)
      /\ formats[1] \in SeekingKinds
      /\ Len(formats) > 1
      /\ unrar
      /\ Len(reader) = Len(formats) + 1
      /\ cause = NoCause
      /\ pc = "done" )
    => /\ asked = 1
       /\ answer = "yes" => buffer.kind # "none"

\* C2: for the same chains, when the policy says refuse or the user answers
\* no, the call returns Ok, lists no entry and copies no byte of the decoder
\* output into memory or into a temporary file.  Stated for a build that
\* supports Rar and for the calls in which no step fails.
C2_RefusalIsCleanSuccess ==
    ( /\ WellFormed(formats)
      /\ formats[1] \in SeekingKinds
      /\ Len(formats) > 1
      /\ unrar
      /\ Len(reader) = Len(formats) + 1
      /\ cause = NoCause
      /\ pc = "done"
      /\ (question_policy = "AlwaysNo" \/ answer = "no") )
    => /\ result = OkUnit
       /\ listed = 0
       /\ buffer = NoBuffer
       /\ temp_file = "none"

\* C3: for the same chains, the container reader is opened only on the fully
\* materialized decoder output (the in-memory buffer or the temporary file),
\* never on the raw file at the archive path.
C3_OpenedOnMaterializedOutput ==
    ( /\ WellFormed(formats)
      /\ formats[1] \in SeekingKinds
      /\ Len(formats) > 1
      /\ files # "none" )
    => /\ files \in {"memory", "tempfile"}
       /\ buffer = [kind |-> files, state |-> "full"]

\* C4: a single container tag, or Tar followed by stream layers, takes the
\* direct path: nothing is copied into memory or a temporary file, no
\* warning is emitted, the output lock is never taken and the QuestionPolicy
\* is never consulted.
C4_DirectPath ==
    ( /\ WellFormed(formats)
      /\ (Len(formats) = 1 \/ formats[1] = "Tar") )
    => /\ buffer = NoBuffer
       /\ temp_file = "none"
       /\ warned = 0
       /\ ~locks
       /\ asked = 0
       /\ answer = "none"
       /\ files \in {"none", "file", "stream", "archive_path"}

C4_Witness ==
    /\ formats = <<"SevenZip">>
    /\ pc = "done"
    /\ result = OkUnit
    /\ files = "archive_path"
    /\ listed > 0

\* C5: the output lock is taken before the warning, the warning comes before
\* the question, the lock is released by the step that follows the answer
\* (accepted, declined or failed), and no copy, no opening of the container
\* and no listing of an entry happens while the lock is held.
C5_LockScope ==
    [][ /\ warned' # warned => (locks /\ locks')
        /\ asked' # asked => (locks /\ locks' /\ warned = asked + 1)
        /\ (answer # "none" /\ locks) => ~locks'
        /\ (buffer' # buffer \/ files' # files \/ listed' # listed
              \/ temp_file' # temp_file)
             => (~locks /\ ~locks') ]_vars

C5_Witness ==
    /\ Len(formats) > 1
    /\ formats[1] = "Zip"
    /\ warned = 1
    /\ asked = 1
    /\ answer = "yes"
    /\ ~locks
    /\ buffer = [kind |-> "memory", state |-> "full"]
    /\ files = "memory"
    /\ listed > 0

\* C6: the reader stack is the raw file, then one BufReader, then the
\* decoders of positions n-1, n-2, ..., 1 of the chain in that order, one
\* per position and none for position 0 (none at all for n = 0 and n = 1);
\* once the loop is over the stack holds all of them, the decoder of
\* position 1 outermost.
C6_WrapOrder ==
    LET n == Len(formats)
        decoders == IF n = 0 THEN 0 ELSE n - 1 IN
    /\ Len(reader) >= 1 => reader[1] = "File"
    /\ Len(reader) >= 2 => reader[2] = "BufReader"
    /\ \A j \in 3..Len(reader) : reader[j] = formats[n - (j - 3)]
    /\ Len(reader) <= 2 + decoders
    /\ pc \notin {"open", "check_zip", "fast_zip", "fast_list", "bufreader",
                  "chain", "done"}
         => Len(reader) = 2 + decoders

C6_Witness ==
    /\ pc = "match"
    /\ Len(formats) = 3
    /\ formats[2] # formats[3]
    /\ reader = <<"File", "BufReader", formats[3], formats[2]>>

\* C7: for a well-formed chain, a step that fails makes the call return an
\* Error at once, never a panic.
C7_FailuresReturnError ==
    (WellFormed(formats) /\ cause.step # "none")
    => (pc = "done" /\ result.kind = "Err")

\* C8 as stated: a chain of stream kinds only, on a file that opens, always
\* ends in a panic.
C8_StreamOnlyAlwaysPanics ==
    (StreamOnly(formats) /\ pc = "done" /\ cause.step # "open")
    => result.kind = "Panic"

\* C8 amended: a chain of stream kinds only, on a file that opens, never
\* opens a container, lists nothing and never returns Ok; it ends in a
\* panic, unless a Zstd layer after position 0 fails to construct, which
\* returns that I/O error.
C8_StreamOnlyPanicsOrDecoderError ==
    (StreamOnly(formats) /\ cause.step # "open")
    => /\ files = "none"
       /\ listed = 0
       /\ pc = "done" =>
            \/ result.kind = "Panic"
            \/ /\ result.kind = "Err"
               /\ cause.step = "decoder"
               /\ cause.lib = "io"
               /\ \E j \in 2..Len(formats) : formats[j] = "Zstd"

C8_Witness ==
    /\ StreamOnly(formats)
    /\ Len(formats) > 1
    /\ pc = "done"
    /\ result = Panic("Not an archive!")

\* C9: an I/O error becomes NotFound, PermissionDenied or AlreadyExists by
\* its kind and IoError for any other kind; a ZipError::Io becomes what its
\* I/O error becomes alone; the other ZipError cases become
\* InvalidZipArchive, UnsupportedZipArchive and Custom (file not found).
C9_ErrorConversion ==
    LET ioVariant == IF cause.io \in {"NotFound", "PermissionDenied", "AlreadyExists"}
                     THEN cause.io ELSE "IoError" IN
    /\ (cause.lib = "io" \/ (cause.lib = "zip" /\ cause.tag = "Io"))
         => result = [kind |-> "Err", variant |-> ioVariant, msg |-> cause.io]
    /\ (cause.lib = "zip" /\ cause.tag = "InvalidArchive")
         => (result.kind = "Err" /\ result.variant = "InvalidZipArchive")
    /\ (cause.lib = "zip" /\ cause.tag = "UnsupportedArchive")
         => (result.kind = "Err" /\ result.variant = "UnsupportedZipArchive")
    /\ (cause.lib = "zip" /\ cause.tag = "FileNotFound")
         => (result.kind = "Err" /\ result.variant = "Custom")

C9_Witness ==
    /\ cause = Cause("container", "zip", "Io", "PermissionDenied")
    /\ result = Err("PermissionDenied", "PermissionDenied")
    /\ buffer = [kind |-> "memory", state |-> "full"]

\* C10: in the Rar arm with stream layers, the temporary file exists
\* whenever list_files is about to pull an entry from the iterator opened on
\* its path.
C10_TempFileOutlivesListing ==
    (files = "tempfile" /\ pc = "list") => temp_file = "exists"

====
